---- MODULE Spec2Model ----
(***************************************************************************)
(* Clinical decision logic of the hypertension management app (app.py):    *)
(* blood-pressure classification, cardiovascular risk scoring, risk        *)
(* category, emergency advisory, medication recommendation and target BP.  *)
(*                                                                         *)
(* Conventions                                                             *)
(*  - A patient record is a Python dict: a function whose DOMAIN is the    *)
(*    set of keys present.  data.get(k, d) is Get(data, k, d).             *)
(*  - BMI is a float rounded to two decimals; it is kept in hundredths     *)
(*    (25.00 kg/m2 is 2500), so the comparisons bmi >= 25 and bmi >= 30    *)
(*    are exact.                                                           *)
(*  - A display string is the sequence of its words, so that the Python    *)
(*    substring test  "Stage 2" in bp_class  is a sub-sequence test.       *)
(***************************************************************************)
EXTENDS Integers, Sequences, FiniteSets

VARIABLES
    data,        \* the patient record handed to the decision logic (a dict)
    form,        \* the Secondary HTN Screening checkboxes of the form
    stage,       \* how far the assessment of this record has got
    bp,          \* bp_class, bp_risk = classify_bp(...)
    emergency,   \* whether the vitals tab shows the emergency advisory
    risk_score,  \* risk_score = calculate_risk_score(...)
    risk,        \* risk_category, risk_level = get_risk_category(...)
    actions,     \* the "Immediate Actions Required" list
    plan,        \* what the Treatment Options page shows
    page,        \* the section chosen in the sidebar
    widgets,     \* the values held by the input widgets of the form
    now,         \* the clock datetime.now() reads, in seconds
    report       \* the text reports composed so far, oldest first

vars ==
    <<data, form, stage, bp, emergency, risk_score, risk, actions, plan, page, widgets,
      now, report>>

(***************************************************************************)
(* Display strings                                                         *)
(***************************************************************************)
Normal == <<"Normal">>
Elevated == <<"Elevated">>
Stage1 == <<"Stage", "1", "Hypertension">>
Stage2 == <<"Stage", "2", "Hypertension">>
Crisis == <<"Hypertensive", "Crisis", "-", "EMERGENCY">>
Unknown == <<"Unknown">>

LowRisk == <<"Low", "Risk">>
ModerateRisk == <<"Moderate", "Risk">>
HighRisk == <<"High", "Risk">>
VeryHighRisk == <<"Very", "High", "Risk">>

\* Python's  sub in s  on word sequences
Contains(sub, s) ==
    \E i \in 1..(Len(s) - Len(sub) + 1) : SubSeq(s, i, i + Len(sub) - 1) = sub

\* Python's  d.get(k, default)
Get(d, k, default) == IF k \in DOMAIN d THEN d[k] ELSE default

(***************************************************************************)
(* classify_bp(systolic, diastolic)                                        *)
(***************************************************************************)
\* variant: the Elevated rule is tried before the Normal rule
classify_bp_elevated_first(systolic, diastolic) ==
    IF systolic < 130 /\ diastolic < 80 THEN <<Elevated, "moderate">>
    ELSE IF systolic < 120 /\ diastolic < 80 THEN <<Normal, "low">>
    ELSE IF (130 <= systolic /\ systolic <= 139) \/ (80 <= diastolic /\ diastolic <= 89)
        THEN <<Stage1, "moderate">>
    ELSE IF systolic >= 140 \/ diastolic >= 90 THEN <<Stage2, "high">>
    ELSE IF systolic >= 180 \/ diastolic >= 120 THEN <<Crisis, "high">>
    ELSE <<Unknown, "moderate">>

\* the conditions of the first four rules, as written
RuleCondition(rule, systolic, diastolic) ==
    CASE rule = 1 -> systolic < 120 /\ diastolic < 80
      [] rule = 2 -> systolic < 130 /\ diastolic < 80
      [] rule = 3 -> (130 <= systolic /\ systolic <= 139) \/ (80 <= diastolic /\ diastolic <= 89)
      [] rule = 4 -> systolic >= 140 \/ diastolic >= 90

\* what each of the first four rules returns
RuleResult(rule) ==
    CASE rule = 1 -> <<Normal, "low">>
      [] rule = 2 -> <<Elevated, "moderate">>
      [] rule = 3 -> <<Stage1, "moderate">>
      [] rule = 4 -> <<Stage2, "high">>

\* variant: the Stage 2 rule needs both numbers raised and the function
\* ends without its last return
classify_bp_no_default(systolic, diastolic) ==
    IF systolic < 120 /\ diastolic < 80 THEN <<Normal, "low">>
    ELSE IF systolic < 130 /\ diastolic < 80 THEN <<Elevated, "moderate">>
    ELSE IF (130 <= systolic /\ systolic <= 139) \/ (80 <= diastolic /\ diastolic <= 89)
        THEN <<Stage1, "moderate">>
    ELSE IF systolic >= 140 /\ diastolic >= 90 THEN <<Stage2, "high">>
    ELSE IF systolic >= 180 \/ diastolic >= 120 THEN <<Crisis, "high">>
    ELSE <<>>

\* variant: the Crisis rule is tried before the Stage 1 and Stage 2 rules
classify_bp_crisis_first(systolic, diastolic) ==
    IF systolic < 120 /\ diastolic < 80 THEN <<Normal, "low">>
    ELSE IF systolic < 130 /\ diastolic < 80 THEN <<Elevated, "moderate">>
    ELSE IF systolic >= 180 \/ diastolic >= 120 THEN <<Crisis, "high">>
    ELSE IF (130 <= systolic /\ systolic <= 139) \/ (80 <= diastolic /\ diastolic <= 89)
        THEN <<Stage1, "moderate">>
    ELSE IF systolic >= 140 \/ diastolic >= 90 THEN <<Stage2, "high">>
    ELSE <<Unknown, "moderate">>

\* variant: the Stage 1 rule needs both numbers in its range
classify_bp_strict_stage1(systolic, diastolic) ==
    IF systolic < 120 /\ diastolic < 80 THEN <<Normal, "low">>
    ELSE IF systolic < 130 /\ diastolic < 80 THEN <<Elevated, "moderate">>
    ELSE IF (130 <= systolic /\ systolic <= 139) /\ (80 <= diastolic /\ diastolic <= 89)
        THEN <<Stage1, "moderate">>
    ELSE IF systolic >= 140 \/ diastolic >= 90 THEN <<Stage2, "high">>
    ELSE IF systolic >= 180 \/ diastolic >= 120 THEN <<Crisis, "high">>
    ELSE <<Unknown, "moderate">>

classify_bp(systolic, diastolic) ==
    IF systolic < 120 /\ diastolic < 80 THEN <<Normal, "low">>
    ELSE IF systolic < 130 /\ diastolic < 80 THEN <<Elevated, "moderate">>
    ELSE IF (130 <= systolic /\ systolic <= 139) \/ (80 <= diastolic /\ diastolic <= 89)
        THEN <<Stage1, "moderate">>
    ELSE IF systolic >= 140 \/ diastolic >= 90 THEN <<Stage2, "high">>
    ELSE IF systolic >= 180 \/ diastolic >= 120 THEN <<Crisis, "high">>
    ELSE <<Unknown, "moderate">>

(***************************************************************************)
(* calculate_risk_score(data)                                              *)
(***************************************************************************)
\* variant: the tiers are closed ranges that leave out age 65
AgeFactor_gap(d) ==
    LET age == Get(d, "age", 0)
    IN  IF age > 65 THEN 3
        ELSE IF 55 < age /\ age < 65 THEN 2
        ELSE IF 45 < age /\ age <= 55 THEN 1
        ELSE 0

AgeFactor(d) ==
    IF Get(d, "age", 0) > 65 THEN 3
    ELSE IF Get(d, "age", 0) > 55 THEN 2
    ELSE IF Get(d, "age", 0) > 45 THEN 1
    ELSE 0

BmiFactor(d) ==
    LET bmi == Get(d, "bmi", 0)
    IN  IF bmi >= 3000 THEN 2 ELSE IF bmi >= 2500 THEN 1 ELSE 0

ComorbidityFactor(d) ==
      (IF Get(d, "diabetes", FALSE) THEN 3 ELSE 0)
    + (IF Get(d, "cad", FALSE) THEN 3 ELSE 0)
    + (IF Get(d, "ckd", FALSE) THEN 2 ELSE 0)
    + (IF Get(d, "smoking", FALSE) THEN 2 ELSE 0)

\* variant: a bp_category already stored in the record is trusted
BpFactor_cached(d) ==
    LET bp_class == Get(d, "bp_category",
                        classify_bp(Get(d, "systolic", 120), Get(d, "diastolic", 80))[1])
    IN  IF Contains(<<"Crisis">>, bp_class) THEN 5
        ELSE IF Contains(<<"Stage", "2">>, bp_class) THEN 3
        ELSE IF Contains(<<"Stage", "1">>, bp_class) THEN 2
        ELSE 0

BpFactor(d) ==
    LET bp_class == classify_bp(Get(d, "systolic", 120), Get(d, "diastolic", 80))[1]
    IN  IF Contains(<<"Crisis">>, bp_class) THEN 5
        ELSE IF Contains(<<"Stage", "2">>, bp_class) THEN 3
        ELSE IF Contains(<<"Stage", "1">>, bp_class) THEN 2
        ELSE 0

calculate_risk_score(d) ==
    AgeFactor(d) + BmiFactor(d) + ComorbidityFactor(d) + BpFactor(d)

(***************************************************************************)
(* get_risk_category(score)                                                *)
(***************************************************************************)
\* variant: the upper bound of every band is exclusive
get_risk_category_exclusive(score) ==
    IF score < 3 THEN <<LowRisk, "low">>
    ELSE IF score < 7 THEN <<ModerateRisk, "moderate">>
    ELSE IF score < 12 THEN <<HighRisk, "high">>
    ELSE <<VeryHighRisk, "high">>

get_risk_category(score) ==
    IF score <= 3 THEN <<LowRisk, "low">>
    ELSE IF score <= 7 THEN <<ModerateRisk, "moderate">>
    ELSE IF score <= 12 THEN <<HighRisk, "high">>
    ELSE <<VeryHighRisk, "high">>

(***************************************************************************)
(* Patient Assessment page                                                 *)
(***************************************************************************)
\* variant: the advisory follows the category string
EmergencyAdvisory_by_category(systolic, diastolic) ==
    Contains(<<"Crisis">>, classify_bp(systolic, diastolic)[1])

\* the advisory shown under the BP classification of the vitals tab
EmergencyAdvisory(systolic, diastolic) == systolic >= 180 \/ diastolic >= 120

\* st.session_state.patient_data['risk_score'] = ...; ['risk_category'] = ...
Put(d, k, v) == [x \in (DOMAIN d) \cup {k} |-> IF x = k THEN v ELSE d[x]]

AttachRisk(d, score, category) ==
    Put(Put(d, "risk_score", score), "risk_category", category)

\* variant: an endocrine clue is named in the list
ImmediateActions_endocrine(d, risk_category, f) ==
       (IF Get(d, "systolic", 0) >= 180 \/ Get(d, "diastolic", 0) >= 120
            THEN <<"EMERGENCY REFERRAL">> ELSE <<>>)
    \o (IF risk_category \in {HighRisk, VeryHighRisk}
            THEN <<"Start or intensify therapy">> ELSE <<>>)
    \o (IF Get(d, "bmi", 0) >= 2500 THEN <<"Weight reduction">> ELSE <<>>)
    \o (IF Get(d, "smoking", FALSE) THEN <<"Smoking cessation">> ELSE <<>>)
    \o (IF Get(d, "diabetes", FALSE) THEN <<"Optimize diabetes">> ELSE <<>>)
    \o <<"Order basic investigations">>
    \o (IF f.resistant_htn \/ f.early_onset \/ f.malignant_htn
            THEN <<"Screen for secondary hypertension">> ELSE <<>>)
    \o (IF f.hypokalemia \/ f.cushings_features \/ f.pheo_triad
            THEN <<"Endocrine clues present">> ELSE <<>>)

\* variant: an acute rise in blood pressure also asks for the screening
ImmediateActions_acute_rise(d, risk_category, f) ==
       (IF Get(d, "systolic", 0) >= 180 \/ Get(d, "diastolic", 0) >= 120
            THEN <<"EMERGENCY REFERRAL">> ELSE <<>>)
    \o (IF risk_category \in {HighRisk, VeryHighRisk}
            THEN <<"Start or intensify therapy">> ELSE <<>>)
    \o (IF Get(d, "bmi", 0) >= 2500 THEN <<"Weight reduction">> ELSE <<>>)
    \o (IF Get(d, "smoking", FALSE) THEN <<"Smoking cessation">> ELSE <<>>)
    \o (IF Get(d, "diabetes", FALSE) THEN <<"Optimize diabetes">> ELSE <<>>)
    \o <<"Order basic investigations">>
    \o (IF f.resistant_htn \/ f.acute_rise \/ f.early_onset \/ f.malignant_htn
            THEN <<"Screen for secondary hypertension">> ELSE <<>>)

\* the "Immediate Actions Required" list of the assessment summary
ImmediateActions(d, risk_category, f) ==
       (IF Get(d, "systolic", 0) >= 180 \/ Get(d, "diastolic", 0) >= 120
            THEN <<"EMERGENCY REFERRAL">> ELSE <<>>)
    \o (IF risk_category \in {HighRisk, VeryHighRisk}
            THEN <<"Start or intensify therapy">> ELSE <<>>)
    \o (IF Get(d, "bmi", 0) >= 2500 THEN <<"Weight reduction">> ELSE <<>>)
    \o (IF Get(d, "smoking", FALSE) THEN <<"Smoking cessation">> ELSE <<>>)
    \o (IF Get(d, "diabetes", FALSE) THEN <<"Optimize diabetes">> ELSE <<>>)
    \o <<"Order basic investigations">>
    \o (IF f.resistant_htn \/ f.early_onset \/ f.malignant_htn
            THEN <<"Screen for secondary hypertension">> ELSE <<>>)

(***************************************************************************)
(* Treatment Options page                                                  *)
(***************************************************************************)
\* variant: the rules are an elif chain, the first match wins
Recommendations_first_match(d) ==
    IF Get(d, "diabetes", FALSE) \/ Get(d, "ckd", FALSE)
        THEN <<"ACE Inhibitor or ARB">>
    ELSE IF Get(d, "age", 0) > 55 \/ Get(d, "sex", "None") = "Male"
        THEN <<"Calcium Channel Blocker">>
    ELSE IF Get(d, "systolic", 120) >= 160 \/ Get(d, "diastolic", 80) >= 100
        THEN <<"Consider dual therapy">>
    ELSE <<"Start with any first-line agent">>

\* variant: the age rule is  age >= 55
Recommendations_age_inclusive(d) ==
    LET matched ==
               (IF Get(d, "diabetes", FALSE) \/ Get(d, "ckd", FALSE)
                    THEN <<"ACE Inhibitor or ARB">> ELSE <<>>)
            \o (IF Get(d, "age", 0) >= 55 \/ Get(d, "sex", "None") = "Male"
                    THEN <<"Calcium Channel Blocker">> ELSE <<>>)
            \o (IF Get(d, "systolic", 120) >= 160 \/ Get(d, "diastolic", 80) >= 100
                    THEN <<"Consider dual therapy">> ELSE <<>>)
    IN  IF matched = <<>> THEN <<"Start with any first-line agent">> ELSE matched

\* variant: the calcium channel blocker rule looks at the age alone
Recommendations_age_only(d) ==
    LET matched ==
               (IF Get(d, "diabetes", FALSE) \/ Get(d, "ckd", FALSE)
                    THEN <<"ACE Inhibitor or ARB">> ELSE <<>>)
            \o (IF Get(d, "age", 0) > 55
                    THEN <<"Calcium Channel Blocker">> ELSE <<>>)
            \o (IF Get(d, "systolic", 120) >= 160 \/ Get(d, "diastolic", 80) >= 100
                    THEN <<"Consider dual therapy">> ELSE <<>>)
    IN  IF matched = <<>> THEN <<"Start with any first-line agent">> ELSE matched

\* Medication Selection tab: "Recommended Initial Therapy"
Recommendations(d) ==
    LET matched ==
               (IF Get(d, "diabetes", FALSE) \/ Get(d, "ckd", FALSE)
                    THEN <<"ACE Inhibitor or ARB">> ELSE <<>>)
            \o (IF Get(d, "age", 0) > 55 \/ Get(d, "sex", "None") = "Male"
                    THEN <<"Calcium Channel Blocker">> ELSE <<>>)
            \o (IF Get(d, "systolic", 120) >= 160 \/ Get(d, "diastolic", 80) >= 100
                    THEN <<"Consider dual therapy">> ELSE <<>>)
    IN  IF matched = <<>> THEN <<"Start with any first-line agent">> ELSE matched

\* variant: the age rule is tried before the diabetes/CKD rule
TargetBP_age_first(d) ==
    IF Get(d, "age", 0) >= 65 THEN <<140, 90>>
    ELSE IF Get(d, "diabetes", FALSE) \/ Get(d, "ckd", FALSE) THEN <<130, 80>>
    ELSE <<130, 80>>

\* Treatment Goals tab: target_sys, target_dia
TargetBP(d) ==
    IF Get(d, "diabetes", FALSE) \/ Get(d, "ckd", FALSE) THEN <<130, 80>>
    ELSE IF Get(d, "age", 0) >= 65 THEN <<140, 90>>
    ELSE <<130, 80>>

\* Comprehensive Treatment Plan tab: the "Goal" metric  <S/D mmHg
PlanGoal(d) ==
    IF Get(d, "diabetes", FALSE) \/ Get(d, "ckd", FALSE) THEN <<130, 80>>
    ELSE IF Get(d, "age", 0) >= 65 THEN <<140, 90>>
    ELSE <<130, 80>>

\* the three tiers of "1. Pharmacological Treatment"
MedicationRecommended == "Medication recommended - Stage 2 Hypertension"
LifestyleFirst == "Lifestyle modifications first, consider medication"
LifestyleSufficient == "Lifestyle modifications sufficient at this time"

\* variant: the medication tier needs both numbers raised
PharmacologicalTreatment_both(d) ==
    LET systolic == Get(d, "systolic", 130)
        diastolic == Get(d, "diastolic", 85)
    IN  IF systolic >= 140 /\ diastolic >= 90
        THEN [tier |-> MedicationRecommended,
              lines |-> IF Get(d, "diabetes", FALSE) \/ Get(d, "ckd", FALSE)
                        THEN <<"ACE Inhibitor or ARB (first choice for renal protection)",
                               "May add CCB or thiazide diuretic">>
                        ELSE <<"Any first-line agent (ACEi, ARB, CCB, or thiazide)",
                               "Consider dual therapy if BP >=160/100">>]
        ELSE IF systolic >= 130 \/ diastolic >= 80
        THEN [tier |-> LifestyleFirst,
              lines |-> <<"High cardiovascular risk",
                          "Target organ damage present",
                          "BP not controlled after 3-6 months of lifestyle changes">>]
        ELSE [tier |-> LifestyleSufficient, lines |-> <<>>]

\* variant: the dual-therapy line follows the reading, in either branch
PharmacologicalTreatment_dual_by_reading(d) ==
    LET systolic == Get(d, "systolic", 130)
        diastolic == Get(d, "diastolic", 85)
    IN  IF systolic >= 140 \/ diastolic >= 90
        THEN [tier |-> MedicationRecommended,
              lines |-> (IF Get(d, "diabetes", FALSE) \/ Get(d, "ckd", FALSE)
                         THEN <<"ACE Inhibitor or ARB (first choice for renal protection)",
                                "May add CCB or thiazide diuretic">>
                         ELSE <<"Any first-line agent (ACEi, ARB, CCB, or thiazide)">>)
                        \o (IF systolic >= 160 \/ diastolic >= 100
                            THEN <<"Consider dual therapy if BP >=160/100">> ELSE <<>>)]
        ELSE IF systolic >= 130 \/ diastolic >= 80
        THEN [tier |-> LifestyleFirst,
              lines |-> <<"High cardiovascular risk",
                          "Target organ damage present",
                          "BP not controlled after 3-6 months of lifestyle changes">>]
        ELSE [tier |-> LifestyleSufficient, lines |-> <<>>]

\* Comprehensive Treatment Plan tab, "1. Pharmacological Treatment": the
\* headline and the bullet lines under it; a missing reading counts as 130/85
PharmacologicalTreatment(d) ==
    LET systolic == Get(d, "systolic", 130)
        diastolic == Get(d, "diastolic", 85)
    IN  IF systolic >= 140 \/ diastolic >= 90
        THEN [tier |-> MedicationRecommended,
              lines |-> IF Get(d, "diabetes", FALSE) \/ Get(d, "ckd", FALSE)
                        THEN <<"ACE Inhibitor or ARB (first choice for renal protection)",
                               "May add CCB or thiazide diuretic">>
                        ELSE <<"Any first-line agent (ACEi, ARB, CCB, or thiazide)",
                               "Consider dual therapy if BP >=160/100">>]
        ELSE IF systolic >= 130 \/ diastolic >= 80
        THEN [tier |-> LifestyleFirst,
              lines |-> <<"High cardiovascular risk",
                          "Target organ damage present",
                          "BP not controlled after 3-6 months of lifestyle changes">>]
        ELSE [tier |-> LifestyleSufficient, lines |-> <<>>]

\* Comprehensive Treatment Plan tab, "3. Monitoring and Follow-up": the
\* timepoints listed; a missing category counts as Moderate Risk
PlanFollowUp(d) ==
    LET risk_category == Get(d, "risk_category", ModerateRisk)
    IN  IF Contains(<<"High">>, risk_category) \/ Contains(<<"Very", "High">>, risk_category)
        THEN <<"Week 2", "Week 4", "Month 2", "Month 3", "Ongoing: Every 1-2 months">>
        ELSE <<"Month 1", "Month 3", "Ongoing: Every 3-6 months">>

\* variant: only the category named High Risk gets the intensive schedule
MonitoringPlan_exact(d) ==
    LET risk_category == Get(d, "risk_category", ModerateRisk)
    IN  IF risk_category = HighRisk
        THEN <<"Week 2", "Week 4", "Month 2", "Month 3",
               "Then: Every 1-2 months", "Maintenance: Every 3-4 months">>
        ELSE <<"Week 4", "Month 2", "Month 3",
               "Then: Every 2-3 months", "Maintenance: Every 4-6 months">>

\* Monitoring Plan tab, "Follow-up Schedule": the timepoints listed
MonitoringPlan(d) ==
    LET risk_category == Get(d, "risk_category", ModerateRisk)
    IN  IF Contains(<<"Very", "High">>, risk_category) \/ Contains(<<"High">>, risk_category)
        THEN <<"Week 2", "Week 4", "Month 2", "Month 3",
               "Then: Every 1-2 months", "Maintenance: Every 3-4 months">>
        ELSE <<"Week 4", "Month 2", "Month 3",
               "Then: Every 2-3 months", "Maintenance: Every 4-6 months">>

(***************************************************************************)
(* Input records                                                           *)
(***************************************************************************)
\* widget ranges of the vitals tab
SysMin == 70
SysMax == 250
DiaMin == 40
DiaMax == 150

\* how far outside the widget ranges a reading handed to the functions may lie
Beyond == 5

Record(age, sex, bmi, systolic, diastolic, diabetes, cad, ckd, smoking) ==
    [age |-> age, sex |-> sex, bmi |-> bmi,
     systolic |-> systolic, diastolic |-> diastolic,
     diabetes |-> diabetes, cad |-> cad, ckd |-> ckd, smoking |-> smoking]

Restrict(d, keys) == [k \in (DOMAIN d) \cap keys |-> d[k]]

\* values on both sides of every threshold the code compares with
AgeVals == {45, 46, 55, 56, 64, 65, 66}
BmiVals == {2499, 2500, 2999, 3000}
SysVals == {119, 120, 129, 130, 139, 140, 159, 160, 179, 180}
DiaVals == {79, 80, 89, 90, 99, 100, 119, 120}
SexVals == {"Male", "Female"}

\* the two worked scenarios of the specification
ScenarioRecords ==
    {Record(70, sx, 3100, 150, 95, TRUE, FALSE, FALSE, TRUE) : sx \in SexVals}
    \cup {Record(30, sx, 2200, 115, 75, FALSE, FALSE, FALSE, FALSE) : sx \in SexVals}

\* records with any subset of the fields missing
PartialRecords ==
    {Restrict(r, keys) :
        r \in {Record(70, "Male", 3100, 150, 95, TRUE, TRUE, TRUE, TRUE),
               Record(50, "Female", 2600, 185, 125, FALSE, TRUE, FALSE, TRUE)},
        keys \in SUBSET {"age", "sex", "bmi", "systolic", "diastolic",
                         "diabetes", "cad", "ckd", "smoking"}}

\* records that already carry (possibly stale) derived fields
StaleRecords ==
    {Put(AttachRisk(r, sc, rc), "bp_category", bc) :
        r \in ScenarioRecords, sc \in {0, 20}, rc \in {LowRisk, VeryHighRisk},
        bc \in {Normal, Stage1, Crisis}}

SecondaryFlags ==
    {"resistant_htn", "acute_rise", "malignant_htn", "early_onset",
     "abdominal_bruit", "asymmetric_kidneys", "elevated_creatinine",
     "abnormal_urinalysis", "hypokalemia", "cushings_features", "pheo_triad"}

\* the two columns of clue checkboxes on the screening tab
RenalClues ==
    {"abdominal_bruit", "asymmetric_kidneys", "elevated_creatinine", "abnormal_urinalysis"}

EndocrineClues == {"hypokalemia", "cushings_features", "pheo_triad"}

\* every checkbox starts unticked
DefaultForm == [k \in SecondaryFlags |-> FALSE]

None == <<>>

\* the sections of the sidebar
Pages ==
    {"Home", "Patient Assessment", "Treatment Options", "Diet Advice",
     "Exercise Plan", "Reports"}

\* the widgets whose values reach the patient record, at their initial values
DefaultWidgets ==
    [age |-> 45, sex |-> "Male", weight |-> 70, height |-> 170,
     systolic |-> 130, diastolic |-> 85,
     diabetes |-> FALSE, cad |-> FALSE, ckd |-> FALSE, smoking |-> FALSE]

\* the values a user enters in the session modelled
WidgetChoices ==
    [age |-> {45, 70}, sex |-> {"Male"}, weight |-> {70, 90}, height |-> {170},
     systolic |-> {115, 130, 185}, diastolic |-> {75, 85},
     diabetes |-> BOOLEAN, cad |-> {FALSE}, ckd |-> {FALSE}, smoking |-> BOOLEAN]

\* the screening checkboxes a user ticks in the session modelled
FlagChoices == {"resistant_htn", "hypokalemia"}

\* round(weight / (height / 100) ** 2, 2), in hundredths of kg/m2
calculate_bmi(weight, height) ==
    (2 * 1000000 * weight + height * height) \div (2 * height * height)

(***************************************************************************)
(* The assessment of one record                                            *)
(***************************************************************************)
\* every combination of the fields the decision logic reads, at the thresholds
BoundaryInput ==
    \E a \in AgeVals, sx \in SexVals, b \in BmiVals, s \in SysVals, d \in DiaVals,
       dm \in BOOLEAN, cad \in BOOLEAN, ckd \in BOOLEAN, sm \in BOOLEAN :
        data = Record(a, sx, b, s, d, dm, cad, ckd, sm)

\* every reading, for the patient the form starts with
SweepInput ==
    \E s \in (SysMin - Beyond)..(SysMax + Beyond),
       d \in (DiaMin - Beyond)..(DiaMax + Beyond) :
        data = Record(45, "Male", 2422, s, d, FALSE, FALSE, FALSE, FALSE)

CoreInit ==
    /\ \/ BoundaryInput
       \/ SweepInput
       \/ data \in ScenarioRecords \cup PartialRecords \cup StaleRecords
    /\ form \in (IF data \in ScenarioRecords
                    THEN [SecondaryFlags -> BOOLEAN] ELSE {DefaultForm})
    /\ stage = "input"
    /\ bp = None
    /\ emergency = FALSE
    /\ risk_score = 0
    /\ risk = None
    /\ actions = None
    /\ plan = None
    /\ page = "Patient Assessment"
    /\ widgets = DefaultWidgets
    /\ now = 0
    /\ report = None

\* vitals tab: classify the reading and show the advisory
Classify ==
    /\ stage = "input"
    /\ LET systolic == Get(data, "systolic", 120)
           diastolic == Get(data, "diastolic", 80)
       IN  /\ bp' = classify_bp(systolic, diastolic)
           /\ emergency' = EmergencyAdvisory(systolic, diastolic)
    /\ stage' = "classified"
    /\ UNCHANGED <<data, form, risk_score, risk, actions, plan, page, widgets, now, report>>

\* "Generate Assessment Summary": score, categorise, store and summarise
Assess ==
    /\ stage = "classified"
    /\ LET score == calculate_risk_score(data)
           category == get_risk_category(score)
           stored == AttachRisk(data, score, category[1])
       IN  /\ risk_score' = score
           /\ risk' = category
           /\ data' = stored
           /\ actions' = ImmediateActions(stored,
                            get_risk_category(Get(stored, "risk_score", 0))[1], form)
    /\ stage' = "assessed"
    /\ UNCHANGED <<form, bp, emergency, plan, page, widgets, now, report>>

\* Treatment Options page for the stored record
Treat ==
    /\ stage = "assessed"
    /\ plan' = [recommendations |-> Recommendations(data),
                target |-> TargetBP(data),
                goal |-> PlanGoal(data),
                pharmacological |-> PharmacologicalTreatment(data),
                follow_up |-> PlanFollowUp(data),
                monitoring |-> MonitoringPlan(data)]
    /\ stage' = "treated"
    /\ UNCHANGED <<data, form, bp, emergency, risk_score, risk, actions, page, widgets, now, report>>

CoreNext == Classify \/ Assess \/ Treat

SpecCore == CoreInit /\ [][CoreNext]_vars

(***************************************************************************)
(* The text report of the Reports page                                     *)
(***************************************************************************)
SecondsPerMinute == 60

\* variant: the time is printed with its seconds
strftime_seconds(t) == t

\* strftime('%B %d, %Y at %I:%M %p'): the date and the time of day down to
\* the minute; the seconds are dropped
strftime(t) == t \div SecondsPerMinute

YesNo(flag) == IF flag THEN "Yes" ELSE "No"

\* the f-string of the download: every line that is filled in from the
\* record or the clock (the other lines are fixed text)
report_text(d, t) ==
    [generated |-> strftime(t),
     name |-> Get(d, "patient_name", "N/A"),
     age |-> Get(d, "age", "N/A"),
     sex |-> Get(d, "sex", "N/A"),
     bmi |-> Get(d, "bmi", "N/A"),
     blood_pressure |-> <<Get(d, "systolic", "N/A"), Get(d, "diastolic", "N/A")>>,
     heart_rate |-> Get(d, "hr", "N/A"),
     bp_classification |-> classify_bp(Get(d, "systolic", 120), Get(d, "diastolic", 80))[1],
     risk_score |-> Get(d, "risk_score", 0),
     risk_category |-> Get(d, "risk_category", "N/A"),
     diabetes |-> YesNo(Get(d, "diabetes", FALSE)),
     cad |-> YesNo(Get(d, "cad", FALSE)),
     ckd |-> YesNo(Get(d, "ckd", FALSE)),
     cva |-> YesNo(Get(d, "cva", FALSE)),
     smoking |-> YesNo(Get(d, "smoking", FALSE)),
     physical_inactivity |-> YesNo(Get(d, "physical_inactivity", FALSE)),
     overweight |-> YesNo(Get(d, "bmi", 0) >= 2500)]

(***************************************************************************)
(* The application: every interaction reruns the script from the top       *)
(***************************************************************************)
\* the dict literal assigned to st.session_state.patient_data
PatientData(w) ==
    [age |-> w.age, sex |-> w.sex, weight |-> w.weight, height |-> w.height,
     bmi |-> calculate_bmi(w.weight, w.height),
     systolic |-> w.systolic, diastolic |-> w.diastolic,
     diabetes |-> w.diabetes, cad |-> w.cad, ckd |-> w.ckd, smoking |-> w.smoking]

\* variant: the score is taken before the vitals are in the record
GenerateAssessment_score_first(w) ==
    LET rec == PatientData(w)
        score == calculate_risk_score(Restrict(rec, DOMAIN rec \ {"systolic", "diastolic"}))
        category == get_risk_category(score)
    IN  AttachRisk(rec, score, category[1])

\* the record the "Generate Assessment Summary" button leaves in the session
GenerateAssessment(w) ==
    LET rec == PatientData(w)
        score == calculate_risk_score(rec)
        category == get_risk_category(score)
    IN  AttachRisk(rec, score, category[1])

\* the pages that show the stored score and category
ShowsRisk(p, d) == p \in {"Patient Assessment", "Reports"} /\ DOMAIN d # {}

\* variant: the Treatment Options page does not look whether a record is stored
Rerun_unguarded(p, w, f, d) ==
    /\ bp' = IF p = "Patient Assessment"
                THEN classify_bp(w.systolic, w.diastolic) ELSE None
    /\ emergency' = (p = "Patient Assessment"
                        /\ EmergencyAdvisory(w.systolic, w.diastolic))
    /\ risk_score' = IF ShowsRisk(p, d) THEN Get(d, "risk_score", 0) ELSE 0
    /\ risk' = IF ShowsRisk(p, d)
                  THEN get_risk_category(Get(d, "risk_score", 0)) ELSE None
    /\ actions' = IF p = "Patient Assessment" /\ DOMAIN d # {}
                     THEN ImmediateActions(d, get_risk_category(Get(d, "risk_score", 0))[1], f)
                     ELSE None
    /\ plan' = IF p = "Treatment Options"
                  THEN [recommendations |-> Recommendations(d),
                        target |-> TargetBP(d),
                        goal |-> PlanGoal(d),
                        pharmacological |-> PharmacologicalTreatment(d),
                        follow_up |-> PlanFollowUp(d),
                        monitoring |-> MonitoringPlan(d)]
                  ELSE None
    /\ report' = IF p = "Reports" /\ DOMAIN d # {}
                    THEN <<[at |-> now, text |-> report_text(d, now)]>>
                    ELSE None

\* what one run of the script displays, given the page, the widget values,
\* the checkboxes and the stored record it runs with
Rerun(p, w, f, d) ==
    /\ bp' = IF p = "Patient Assessment"
                THEN classify_bp(w.systolic, w.diastolic) ELSE None
    /\ emergency' = (p = "Patient Assessment"
                        /\ EmergencyAdvisory(w.systolic, w.diastolic))
    /\ risk_score' = IF ShowsRisk(p, d) THEN Get(d, "risk_score", 0) ELSE 0
    /\ risk' = IF ShowsRisk(p, d)
                  THEN get_risk_category(Get(d, "risk_score", 0)) ELSE None
    /\ actions' = IF p = "Patient Assessment" /\ DOMAIN d # {}
                     THEN ImmediateActions(d, get_risk_category(Get(d, "risk_score", 0))[1], f)
                     ELSE None
    /\ plan' = IF p = "Treatment Options" /\ DOMAIN d # {}
                  THEN [recommendations |-> Recommendations(d),
                        target |-> TargetBP(d),
                        goal |-> PlanGoal(d),
                        pharmacological |-> PharmacologicalTreatment(d),
                        follow_up |-> PlanFollowUp(d),
                        monitoring |-> MonitoringPlan(d)]
                  ELSE None
    /\ report' = IF p = "Reports" /\ DOMAIN d # {}
                    THEN <<[at |-> now, text |-> report_text(d, now)]>>
                    ELSE None

\* a fresh session: the Home page, an empty patient record
AppInit ==
    /\ page = "Home"
    /\ widgets = DefaultWidgets
    /\ form = DefaultForm
    /\ data = None
    /\ stage = "session"
    /\ bp = None
    /\ emergency = FALSE
    /\ risk_score = 0
    /\ risk = None
    /\ actions = None
    /\ plan = None
    /\ now = 0
    /\ report = None

\* the user picks a section; the widgets of a page that is not drawn may
\* keep their values or come back at their initial values
ChangePage ==
    \E p \in Pages \ {page} :
        \E w \in {widgets, DefaultWidgets}, f \in {form, DefaultForm} :
            /\ (p = "Patient Assessment" \/ page # "Patient Assessment") =>
                   (w = widgets /\ f = form)
            /\ page' = p
            /\ widgets' = w
            /\ form' = f
            /\ Rerun(p, w, f, data)
            /\ UNCHANGED <<data, stage, now>>

\* the user changes one input of the form
EditWidget ==
    /\ page = "Patient Assessment"
    /\ \E k \in DOMAIN widgets : \E v \in WidgetChoices[k] \ {widgets[k]} :
          LET w == [widgets EXCEPT ![k] = v]
          IN  /\ widgets' = w
              /\ Rerun(page, w, form, data)
    /\ UNCHANGED <<data, form, page, stage, now>>

\* the user ticks or clears a screening checkbox
ToggleFlag ==
    /\ page = "Patient Assessment"
    /\ \E flag \in FlagChoices :
          LET f == [form EXCEPT ![flag] = ~form[flag]]
          IN  /\ form' = f
              /\ Rerun(page, widgets, f, data)
    /\ UNCHANGED <<data, widgets, page, stage, now>>

\* the user clicks "Generate Assessment Summary"
Generate ==
    /\ page = "Patient Assessment"
    /\ data' = GenerateAssessment(widgets)
    /\ Rerun(page, widgets, form, GenerateAssessment(widgets))
    /\ UNCHANGED <<form, widgets, page, stage, now>>

AppNext == ChangePage \/ EditWidget \/ ToggleFlag \/ Generate

SpecApp == AppInit /\ [][AppNext]_vars

(***************************************************************************)
(* Composing the report of one stored record while time passes             *)
(***************************************************************************)
\* how far the clock runs, how much it advances at a time, and how many
\* reports are composed
MaxClock == 120
TickStep == 30
MaxReports == 2

\* an assessment has been generated and the Reports page is open
ReportInit ==
    /\ \E age \in WidgetChoices.age, weight \in WidgetChoices.weight,
          systolic \in WidgetChoices.systolic, diastolic \in WidgetChoices.diastolic,
          diabetes \in WidgetChoices.diabetes, smoking \in WidgetChoices.smoking :
          /\ widgets = [DefaultWidgets EXCEPT !.age = age, !.weight = weight,
                                              !.systolic = systolic, !.diastolic = diastolic,
                                              !.diabetes = diabetes, !.smoking = smoking]
          /\ data = GenerateAssessment(widgets)
    /\ page = "Reports"
    /\ form = DefaultForm
    /\ stage = "session"
    /\ bp = None
    /\ emergency = FALSE
    /\ risk_score = data.risk_score
    /\ risk = get_risk_category(data.risk_score)
    /\ actions = None
    /\ plan = None
    /\ now = 0
    /\ report = None

\* time passes
Tick ==
    /\ now + TickStep <= MaxClock
    /\ now' = now + TickStep
    /\ UNCHANGED <<data, form, stage, bp, emergency, risk_score, risk, actions, plan,
                   page, widgets, report>>

\* the script runs again and composes the text of the download
ComposeReport ==
    /\ Len(report) < MaxReports
    /\ report' = Append(report, [at |-> now, text |-> report_text(data, now)])
    /\ UNCHANGED <<data, form, stage, bp, emergency, risk_score, risk, actions, plan,
                   page, widgets, now>>

ReportNext == Tick \/ ComposeReport

SpecReport == ReportInit /\ [][ReportNext]_vars

(***************************************************************************)
(* Properties                                                              *)
(***************************************************************************)
\* scores against which the monotonicity of the bands is compared
MaxScore == 20

ScoredKeys ==
    {"age", "bmi", "diabetes", "cad", "ckd", "smoking", "systolic", "diastolic"}

TreatmentKeys == {"age", "sex", "diabetes", "ckd", "systolic", "diastolic"}

\* the reading classify_bp is called with
Systolic == Get(data, "systolic", 120)
Diastolic == Get(data, "diastolic", 80)

Assessed == stage \in {"assessed", "treated"}

Entries(list) == {list[i] : i \in 1..Len(list)}

Position(list, e) == CHOOSE i \in 1..Len(list) : list[i] = e

\* C1: the score of a record is the sum of its age tier, BMI tier, +3 diabetes,
\* +3 CAD, +2 CKD, +2 smoking and the BP tier of classify_bp on the record's
\* own reading, whatever derived fields the record already carries.
C1_ScoreIsSumOfTiers ==
    (Assessed /\ ScoredKeys \subseteq DOMAIN data) =>
        LET category == classify_bp(data.systolic, data.diastolic)[1]
            ageTier == IF data.age > 65 THEN 3 ELSE IF data.age > 55 THEN 2
                       ELSE IF data.age > 45 THEN 1 ELSE 0
            bmiTier == IF data.bmi >= 3000 THEN 2 ELSE IF data.bmi >= 2500 THEN 1 ELSE 0
            bpTier == IF Contains(<<"Crisis">>, category) THEN 5
                      ELSE IF Contains(<<"Stage", "2">>, category) THEN 3
                      ELSE IF Contains(<<"Stage", "1">>, category) THEN 2 ELSE 0
        IN  risk_score = ageTier + bmiTier
                         + (IF data.diabetes THEN 3 ELSE 0) + (IF data.cad THEN 3 ELSE 0)
                         + (IF data.ckd THEN 2 ELSE 0) + (IF data.smoking THEN 2 ELSE 0)
                         + bpTier

\* a record that carried a stale "Crisis" bp_category and was scored 13 all the same
C1_Witness ==
    /\ stage = "assessed"
    /\ "bp_category" \in DOMAIN data
    /\ data.bp_category = Crisis
    /\ data.age = 70 /\ data.bmi = 3100 /\ data.systolic = 150 /\ data.diastolic = 95
    /\ risk_score = 13

\* C2: scores 0..3 are Low Risk/low, 4..7 Moderate Risk/moderate, 8..12 High
\* Risk/high, 13 and above Very High Risk/high, and a higher score never gets a
\* lower band.
BandRank(category) ==
    CASE category = LowRisk -> 0
      [] category = ModerateRisk -> 1
      [] category = HighRisk -> 2
      [] category = VeryHighRisk -> 3

C2_Band(score) ==
    CASE score \in 0..3 -> <<LowRisk, "low">>
      [] score \in 4..7 -> <<ModerateRisk, "moderate">>
      [] score \in 8..12 -> <<HighRisk, "high">>
      [] score >= 13 -> <<VeryHighRisk, "high">>

C2_RiskBands ==
    Assessed =>
        /\ risk = C2_Band(risk_score)
        /\ \A higher \in risk_score..MaxScore :
              /\ get_risk_category(higher) = C2_Band(higher)
              /\ BandRank(get_risk_category(higher)[1]) >= BandRank(risk[1])

\* a record scored exactly 13, the first Very High Risk score
C2_Witness == stage = "assessed" /\ risk_score = 13 /\ risk = <<VeryHighRisk, "high">>

\* C3: a reading with systolic < 120 and diastolic < 80 is Normal, low.
C3_NormalReading ==
    (stage # "input" /\ Systolic < 120 /\ Diastolic < 80) => bp = <<Normal, "low">>

C3_Witness ==
    stage = "classified" /\ Systolic = 119 /\ Diastolic = 79 /\ bp = <<Normal, "low">>

\* C5: the emergency advisory of the vitals tab, and the EMERGENCY REFERRAL
\* entry of the Immediate Actions list, are there exactly when systolic >= 180
\* or diastolic >= 120, whatever category classify_bp gave the reading.
C5_EmergencyIffCrisisRange ==
    ({"systolic", "diastolic"} \subseteq DOMAIN data) =>
        LET crisisRange == data.systolic >= 180 \/ data.diastolic >= 120
        IN  /\ stage # "input" => (emergency <=> crisisRange)
            /\ Assessed => ("EMERGENCY REFERRAL" \in Entries(actions) <=> crisisRange)

\* a crisis-range reading classified Stage 1, with both advisories raised
C5_Witness ==
    /\ stage = "assessed"
    /\ ScoredKeys \subseteq DOMAIN data
    /\ data.systolic = 185 /\ data.diastolic = 85
    /\ bp[1] = Stage1
    /\ emergency
    /\ actions[1] = "EMERGENCY REFERRAL"

\* C6: raising age or BMI, or setting one of diabetes, cad, ckd, smoking, with
\* every other field of the record unchanged, never lowers the score.
AgeProbes == AgeVals \cup {1, 30, 50, 60, 70, 120}
BmiProbes == BmiVals \cup {0, 2200, 2422, 3100, 4500}

C6_MonotonicInFactors ==
    (stage = "assessed" /\ ScoredKeys \subseteq DOMAIN data) =>
        /\ \A age \in AgeProbes :
              age >= data.age => calculate_risk_score(Put(data, "age", age)) >= risk_score
        /\ \A bmi \in BmiProbes :
              bmi >= data.bmi => calculate_risk_score(Put(data, "bmi", bmi)) >= risk_score
        /\ \A flag \in {"diabetes", "cad", "ckd", "smoking"} :
              calculate_risk_score(Put(data, flag, TRUE)) >= risk_score

\* age 70 scored 3 for age, where age 60 scores 2 and age 50 scores 1
C6_Witness ==
    /\ stage = "assessed"
    /\ ScoredKeys \subseteq DOMAIN data
    /\ data.age = 70 /\ ~data.cad
    /\ AgeFactor(data) = 3
    /\ AgeFactor(Put(data, "age", 60)) = 2
    /\ AgeFactor(Put(data, "age", 50)) = 1
    /\ calculate_risk_score(Put(data, "cad", TRUE)) = risk_score + 3

\* C7: for systolic in 70..250 and diastolic in 40..150, raising systolic with
\* diastolic unchanged, or diastolic with systolic unchanged, never lowers the
\* score.
C7_MonotonicInBP ==
    (/\ stage = "assessed"
     /\ ScoredKeys \subseteq DOMAIN data
     /\ data.systolic \in SysMin..SysMax
     /\ data.diastolic \in DiaMin..DiaMax) =>
        /\ \A systolic \in data.systolic..SysMax :
              calculate_risk_score(Put(data, "systolic", systolic)) >= risk_score
        /\ \A diastolic \in data.diastolic..DiaMax :
              calculate_risk_score(Put(data, "diastolic", diastolic)) >= risk_score

\* C8: the list is the fallback entry alone exactly when diabetes and ckd are
\* false, age <= 55, sex is female, systolic < 160 and diastolic < 100.
Fallback == <<"Start with any first-line agent">>

C8_FallbackIffNothingMatches ==
    (stage = "treated" /\ TreatmentKeys \subseteq DOMAIN data) =>
        (plan.recommendations = Fallback <=>
            /\ ~data.diabetes
            /\ ~data.ckd
            /\ data.age <= 55
            /\ data.sex = "Female"
            /\ data.systolic < 160
            /\ data.diastolic < 100)

\* a woman of 55 at 159/99 without diabetes or CKD, given the fallback
C8_Witness ==
    /\ stage = "treated"
    /\ TreatmentKeys \subseteq DOMAIN data
    /\ data.sex = "Female" /\ data.age = 55
    /\ data.systolic = 159 /\ data.diastolic = 99
    /\ plan.recommendations = Fallback

\* C9: every matching rule is emitted: ACE inhibitor/ARB iff diabetes or ckd,
\* calcium channel blocker iff age > 55 or male, dual therapy iff systolic >= 160
\* or diastolic >= 100, in that order; the list is never empty and the fallback
\* never appears beside one of the three.
C9_RulesAreAdditive ==
    (stage = "treated" /\ TreatmentKeys \subseteq DOMAIN data) =>
        LET recs == plan.recommendations
            ace == "ACE Inhibitor or ARB"
            ccb == "Calcium Channel Blocker"
            dual == "Consider dual therapy"
            Before(x, y) ==
                {x, y} \subseteq Entries(recs) => Position(recs, x) < Position(recs, y)
        IN  /\ ace \in Entries(recs) <=> (data.diabetes \/ data.ckd)
            /\ ccb \in Entries(recs) <=> (data.age > 55 \/ data.sex = "Male")
            /\ dual \in Entries(recs) <=> (data.systolic >= 160 \/ data.diastolic >= 100)
            /\ Before(ace, ccb) /\ Before(ccb, dual) /\ Before(ace, dual)
            /\ Cardinality(Entries(recs)) = Len(recs)
            /\ recs # <<>>
            /\ Fallback[1] \in Entries(recs) => recs = Fallback

\* all three rules matched, emitted in order
C9_Witness ==
    /\ stage = "treated"
    /\ plan.recommendations =
          <<"ACE Inhibitor or ARB", "Calcium Channel Blocker", "Consider dual therapy">>

\* C10: the target is (130,80) with diabetes or ckd whatever the age, otherwise
\* (140,90) iff age >= 65, otherwise (130,80); Treatment Goals and the
\* Comprehensive Treatment Plan show the same target.
C10_TargetBP ==
    (stage = "treated" /\ {"age", "diabetes", "ckd"} \subseteq DOMAIN data) =>
        /\ (data.diabetes \/ data.ckd) => plan.target = <<130, 80>>
        /\ ~(data.diabetes \/ data.ckd) =>
              plan.target = (IF data.age >= 65 THEN <<140, 90>> ELSE <<130, 80>>)
        /\ plan.target = <<140, 90>> <=>
              (~data.diabetes /\ ~data.ckd /\ data.age >= 65)
        /\ plan.goal = plan.target

\* a diabetic of 66: the diabetes rule wins over the age rule
C10_Witness ==
    /\ stage = "treated"
    /\ TreatmentKeys \subseteq DOMAIN data
    /\ data.age = 66 /\ data.diabetes
    /\ plan.target = <<130, 80>>
    /\ plan.goal = <<130, 80>>

\* C11: "Screen for secondary hypertension" is recommended exactly when
\* resistant_htn, early_onset or malignant_htn is ticked; acute_rise and the
\* seven clue flags never change it.
ScreeningEntry == "Screen for secondary hypertension"

C11_ScreeningIffThreeFlags ==
    Assessed =>
        /\ ScreeningEntry \in Entries(actions) <=>
              (form.resistant_htn \/ form.early_onset \/ form.malignant_htn)
        /\ \A flag \in SecondaryFlags \ {"resistant_htn", "early_onset", "malignant_htn"} :
              ScreeningEntry \in Entries(actions) <=>
                  ScreeningEntry \in Entries(ImmediateActions(data, risk[1],
                                        [form EXCEPT ![flag] = ~form[flag]]))

\* early onset alone asks for the screening; acute rise alone does not
C11_Witness ==
    /\ stage = "assessed"
    /\ form.early_onset /\ ~form.resistant_htn /\ ~form.malignant_htn
    /\ ~form.acute_rise /\ form.pheo_triad
    /\ actions[Len(actions)] = ScreeningEntry
    /\ ScreeningEntry \notin Entries(ImmediateActions(data, risk[1],
                                [DefaultForm EXCEPT !["acute_rise"] = TRUE]))

\* C12, as claimed: every ticked clue flag is reported by the assessment, the
\* renal/renovascular flags in one list and the endocrine flags in another:
\* what the assessment shows with the flag ticked differs from what it shows
\* with the flag cleared.
SummaryWith(f) == ImmediateActions(data, risk[1], f)

C12_ClueFlagsReported ==
    Assessed =>
        \A flag \in RenalClues \cup EndocrineClues :
            form[flag] => SummaryWith(form) # SummaryWith([form EXCEPT ![flag] = FALSE])

\* C12, amended: the clue flags form two disjoint groups, four renal and three
\* endocrine, and are inputs only: ticking or clearing any of them changes no
\* entry of the assessment summary, and nothing of them is stored in the record.
C12_ClueFlagsAreInputsOnly ==
    /\ RenalClues \cap EndocrineClues = {}
    /\ RenalClues \cup EndocrineClues \subseteq SecondaryFlags
    /\ Cardinality(RenalClues) = 4 /\ Cardinality(EndocrineClues) = 3
    /\ Assessed =>
          /\ actions = SummaryWith(form)
          /\ \A flag \in RenalClues \cup EndocrineClues :
                actions = SummaryWith([form EXCEPT ![flag] = ~form[flag]])
          /\ DOMAIN data \cap SecondaryFlags = {}

\* clues of both groups are ticked and the summary is the one of an empty form
C12_Witness ==
    /\ stage = "assessed"
    /\ form.abdominal_bruit /\ form.hypokalemia
    /\ ~form.resistant_htn /\ ~form.early_onset /\ ~form.malignant_htn
    /\ actions = SummaryWith(DefaultForm)

\* the two schedules of the Monitoring Plan tab
IntensiveSchedule ==
    <<"Week 2", "Week 4", "Month 2", "Month 3",
      "Then: Every 1-2 months", "Maintenance: Every 3-4 months">>

StandardSchedule ==
    <<"Week 4", "Month 2", "Month 3",
      "Then: Every 2-3 months", "Maintenance: Every 4-6 months">>

Treated == stage = "treated"

\* the timepoint a schedule line is about: its label without "Then:" etc.
Timepoint(line) ==
    CASE line \in {"Then: Every 1-2 months", "Ongoing: Every 1-2 months"} -> "Every 1-2 months"
      [] line = "Then: Every 2-3 months" -> "Every 2-3 months"
      [] line = "Ongoing: Every 3-6 months" -> "Every 3-6 months"
      [] line = "Maintenance: Every 3-4 months" -> "Maintenance 3-4 months"
      [] line = "Maintenance: Every 4-6 months" -> "Maintenance 4-6 months"
      [] OTHER -> line

Timepoints(schedule) == [i \in 1..Len(schedule) |-> Timepoint(schedule[i])]

NoCategory(d) == Restrict(d, DOMAIN d \ {"risk_category"})

\* C13, as claimed: the schedule is the intensive one exactly when the stored
\* category contains "High", else the standard one; the Comprehensive Treatment
\* Plan shows the same timepoints as the Monitoring Plan; a record without a
\* category gets the standard schedule.
C13_OneScheduleForAllCallers ==
    Treated =>
        /\ plan.monitoring =
              IF Contains(<<"High">>, data.risk_category)
              THEN IntensiveSchedule ELSE StandardSchedule
        /\ Timepoints(plan.follow_up) = Timepoints(plan.monitoring)
        /\ MonitoringPlan(NoCategory(data)) = StandardSchedule
        /\ Timepoints(PlanFollowUp(NoCategory(data))) = Timepoints(StandardSchedule)

\* C13, amended: both callers choose the intensive branch exactly when the
\* stored category contains "High" (High Risk and Very High Risk) and the
\* standard branch for a missing category; the Monitoring Plan lists the
\* timepoints of the claim, the Comprehensive Treatment Plan lists shorter
\* ones: Week 2, Week 4, Month 2, Month 3, every 1-2 months (no maintenance
\* line), or Month 1, Month 3, every 3-6 months.
C13_SameBranchOwnTimepoints ==
    Treated =>
        LET high == Contains(<<"High">>, data.risk_category)
        IN  /\ high <=> data.risk_category \in {HighRisk, VeryHighRisk}
            /\ plan.monitoring = IF high THEN IntensiveSchedule ELSE StandardSchedule
            /\ Timepoints(plan.follow_up) =
                  IF high
                  THEN <<"Week 2", "Week 4", "Month 2", "Month 3", "Every 1-2 months">>
                  ELSE <<"Month 1", "Month 3", "Every 3-6 months">>
            /\ MonitoringPlan(NoCategory(data)) = StandardSchedule
            /\ Timepoints(PlanFollowUp(NoCategory(data))) =
                  <<"Month 1", "Month 3", "Every 3-6 months">>

\* a Very High Risk record has been given the intensive schedule
C13_Witness ==
    /\ stage = "treated"
    /\ data.risk_category = VeryHighRisk
    /\ plan.monitoring = IntensiveSchedule
    /\ Len(plan.follow_up) = 5

\* the reading the Comprehensive Treatment Plan works with
PlanSystolic == Get(data, "systolic", 130)
PlanDiastolic == Get(data, "diastolic", 85)

\* C14: the pharmacologic-urgency rule yields exactly one tier for every
\* reading: medication recommended iff systolic >= 140 or diastolic >= 90;
\* otherwise lifestyle first iff systolic is in [130,140) or diastolic in
\* [80,90); otherwise, with systolic < 130 and diastolic < 80, lifestyle
\* sufficient.
C14_UrgencyTiers ==
    Treated =>
        LET s == PlanSystolic
            d == PlanDiastolic
            tier == plan.pharmacological.tier
        IN  /\ tier \in {MedicationRecommended, LifestyleFirst, LifestyleSufficient}
            /\ tier = MedicationRecommended <=> (s >= 140 \/ d >= 90)
            /\ tier = LifestyleFirst <=>
                  /\ ~(s >= 140 \/ d >= 90)
                  /\ (130 <= s /\ s < 140) \/ (80 <= d /\ d < 90)
            /\ tier = LifestyleSufficient <=> (s < 130 /\ d < 80)

\* the systolic number alone, at its lower edge, puts a reading in the
\* medication tier
C14_Witness ==
    /\ stage = "treated"
    /\ {"systolic", "diastolic"} \subseteq DOMAIN data
    /\ data.systolic = 140 /\ data.diastolic = 79
    /\ plan.pharmacological.tier = MedicationRecommended

DualTherapyLine == "Consider dual therapy if BP >=160/100"

RenalProtectionLine == "ACE Inhibitor or ARB (first choice for renal protection)"

AnyFirstLineLine == "Any first-line agent (ACEi, ARB, CCB, or thiazide)"

RenalRisk == Get(data, "diabetes", FALSE) \/ Get(data, "ckd", FALSE)

\* C15, as claimed: in the medication tier the renal-protective agents are
\* advised when diabetes or ckd is set and any first-line agent otherwise, and
\* dual therapy is suggested whenever the reading is at or above 160/100,
\* whether or not diabetes or ckd is set.
C15_DualTherapyByReading ==
    (Treated /\ plan.pharmacological.tier = MedicationRecommended) =>
        LET shown == Entries(plan.pharmacological.lines)
        IN  /\ RenalProtectionLine \in shown <=> RenalRisk
            /\ AnyFirstLineLine \in shown <=> ~RenalRisk
            /\ (PlanSystolic >= 160 \/ PlanDiastolic >= 100) => DualTherapyLine \in shown

\* C15, amended: in the medication tier the renal-protective agents are advised
\* when diabetes or ckd is set, with the note that a CCB or thiazide may be
\* added; otherwise any first-line agent is advised together with the line
\* "Consider dual therapy if BP >=160/100". That line is shown exactly when
\* neither diabetes nor ckd is set, whatever the reading.
C15_DualTherapyLineByBranch ==
    (Treated /\ plan.pharmacological.tier = MedicationRecommended) =>
        plan.pharmacological.lines =
            IF RenalRisk
            THEN <<RenalProtectionLine, "May add CCB or thiazide diuretic">>
            ELSE <<AnyFirstLineLine, DualTherapyLine>>

\* a diabetic at 160/100 or above is shown no dual-therapy line
C15_Witness ==
    /\ stage = "treated"
    /\ {"systolic", "diastolic", "diabetes"} \subseteq DOMAIN data
    /\ data.diabetes /\ data.systolic >= 160 /\ data.diastolic >= 100
    /\ plan.pharmacological.tier = MedicationRecommended
    /\ DualTherapyLine \notin Entries(plan.pharmacological.lines)

\* the fields the two example scenarios fix
Scenario(age, bmi, systolic, diastolic, diabetes, smoking) ==
    /\ ScoredKeys \subseteq DOMAIN data
    /\ data.age = age /\ data.bmi = bmi
    /\ data.systolic = systolic /\ data.diastolic = diastolic
    /\ data.diabetes = diabetes /\ data.smoking = smoking
    /\ ~data.cad /\ ~data.ckd

ElderlyDiabeticSmoker == Scenario(70, 3100, 150, 95, TRUE, TRUE)

YoungHealthyAdult == Scenario(30, 2200, 115, 75, FALSE, FALSE)

\* C16: for age 70, BMI 31, diabetes, smoking, no cad, no ckd, 150/95 the
\* pipeline yields Stage 2 Hypertension with severity high, score
\* 13 = 3 + 2 + 3 + 2 + 3, Very High Risk, target (130,80), a medication list
\* with the ACE-inhibitor/ARB entry and the calcium-channel-blocker entry, and
\* the intensive monitoring schedule.
C16_ElderlyDiabeticSmoker ==
    ElderlyDiabeticSmoker =>
        /\ stage # "input" => bp = <<Stage2, "high">>
        /\ Assessed =>
              /\ risk_score = 13
              /\ AgeFactor(data) = 3 /\ BmiFactor(data) = 2
              /\ ComorbidityFactor(data) = 3 + 2
              /\ BpFactor(data) = 3
              /\ data.risk_score = 13
              /\ risk[1] = VeryHighRisk /\ data.risk_category = VeryHighRisk
        /\ Treated =>
              /\ plan.target = <<130, 80>>
              /\ "ACE Inhibitor or ARB" \in Entries(plan.recommendations)
              /\ "Calcium Channel Blocker" \in Entries(plan.recommendations)
              /\ plan.monitoring = IntensiveSchedule

C16_Witness ==
    /\ ElderlyDiabeticSmoker
    /\ stage = "treated"
    /\ risk_score = 13
    /\ plan.monitoring = IntensiveSchedule

\* what C17 says of the scenario apart from the medication list
C17_Rest ==
    /\ stage # "input" => bp = <<Normal, "low">>
    /\ Assessed =>
          /\ risk_score = 0 /\ data.risk_score = 0
          /\ risk[1] = LowRisk /\ data.risk_category = LowRisk
    /\ Treated =>
          /\ plan.target = <<130, 80>>
          /\ plan.monitoring = StandardSchedule

\* C17, as claimed: for age 30, BMI 22, no comorbidity, 115/75, of either sex,
\* the pipeline yields Normal with severity low, score 0, Low Risk, target
\* (130,80), the fallback recommendation as the only recommendation, and the
\* standard monitoring schedule.
C17_YoungHealthyAdultEitherSex ==
    YoungHealthyAdult =>
        /\ C17_Rest
        /\ Treated => plan.recommendations = Fallback

\* C17, amended: the same, but the fallback is the only recommendation for a
\* female record only; a male record of the scenario (age under 50) gets the
\* calcium-channel-blocker entry as its only recommendation.
C17_YoungHealthyAdultBySex ==
    YoungHealthyAdult =>
        /\ C17_Rest
        /\ Treated =>
              /\ Get(data, "sex", "") = "Female" => plan.recommendations = Fallback
              /\ Get(data, "sex", "") = "Male" =>
                    plan.recommendations = <<"Calcium Channel Blocker">>

\* the male record of the scenario has been given its medication list
C17_Witness ==
    /\ YoungHealthyAdult
    /\ stage = "treated"
    /\ Get(data, "sex", "") = "Male"
    /\ plan.recommendations # Fallback
    /\ plan.monitoring = StandardSchedule

\* C18, as claimed: a record without systolic and diastolic is scored with the
\* defaults 120/80, which are normotensive: classify_bp calls them no stage of
\* hypertension and they add 0 to the score, so a record with every field
\* missing gets risk score 0.
C18_DefaultsAreNormotensive ==
    (Assessed /\ DOMAIN data \cap {"systolic", "diastolic"} = {}) =>
        /\ BpFactor(data) = BpFactor(Put(Put(data, "systolic", 120), "diastolic", 80))
        /\ classify_bp(120, 80)[1] \notin {Stage1, Stage2, Crisis}
        /\ BpFactor(data) = 0
        /\ risk_score = AgeFactor(data) + BmiFactor(data) + ComorbidityFactor(data)
        /\ DOMAIN data \subseteq {"risk_score", "risk_category"} => risk_score = 0

\* C19: in every state reachable by form edits, page changes and clicks on
\* "Generate Assessment Summary", a non-empty stored record holds the
\* risk_score that calculate_risk_score gives for the vitals and flags of that
\* same record and the risk_category that get_risk_category gives for that
\* score, and a page that shows the score and category shows those of the
\* stored record.
C19_StoredRiskIsCurrent ==
    DOMAIN data # {} =>
        /\ {"risk_score", "risk_category"} \subseteq DOMAIN data
        /\ data.risk_score = calculate_risk_score(data)
        /\ data.risk_category = get_risk_category(data.risk_score)[1]
        /\ ShowsRisk(page, data) =>
              /\ risk_score = data.risk_score
              /\ risk[1] = data.risk_category
        /\ plan # None => plan.monitoring = MonitoringPlan(data)

\* the form has been edited after the assessment was generated, and the
\* Reports page shows the score of the stored reading
C19_Witness ==
    /\ page = "Reports"
    /\ DOMAIN data # {}
    /\ data.systolic = 185 /\ data.diabetes
    /\ widgets.systolic # data.systolic
    /\ widgets.diabetes # data.diabetes
    /\ risk_score = data.risk_score
    /\ risk_score = 6

\* C21, as claimed: composing the text report twice from the same stored
\* record yields the same text, whatever time has passed in between.
C21_SameRecordSameText ==
    \A i, j \in 1..Len(report) : report[i].text = report[j].text

\* the report without its "Generated:" line
Body(text) == [k \in DOMAIN text \ {"generated"} |-> text[k]]

\* C21, amended: two reports composed from the same stored record agree in
\* every line except "Generated:", which carries the time of composition to
\* the minute: they are the same text exactly when they are composed within
\* the same minute.
C21_SameTextWithinTheMinute ==
    \A i, j \in 1..Len(report) :
        /\ Body(report[i].text) = Body(report[j].text)
        /\ Body(report[i].text) = Body(report_text(data, 0))
        /\ report[i].text = report[j].text <=>
              report[i].at \div SecondsPerMinute = report[j].at \div SecondsPerMinute

\* two reports of one record: composed at different seconds of one minute
C21_Witness ==
    /\ Len(report) = 2
    /\ report[1].at # report[2].at
    /\ report[1].text = report[2].text
    /\ report[1].text.risk_score = data.risk_score

\* the documented results of classify_bp and of get_risk_category
BpResults ==
    {<<Normal, "low">>, <<Elevated, "moderate">>, <<Stage1, "moderate">>,
     <<Stage2, "high">>, <<Crisis, "high">>, <<Unknown, "moderate">>}

RiskResults ==
    {<<LowRisk, "low">>, <<ModerateRisk, "moderate">>, <<HighRisk, "high">>,
     <<VeryHighRisk, "high">>}

\* C22: for a record with any subset of its fields missing, and for any
\* integer reading inside or outside 70..250 and 40..150, classify_bp returns
\* one of the six categories with its severity, calculate_risk_score an
\* integer and get_risk_category one of the four risk categories.
C22_CoreAlwaysReturns ==
    /\ stage # "input" => bp \in BpResults
    /\ Assessed =>
          /\ risk_score \in Int
          /\ risk \in RiskResults
          /\ data.risk_score = risk_score
          /\ <<data.risk_category, risk[2]>> \in RiskResults

\* the record with every field missing has been classified and scored
C22_Witness ==
    /\ stage = "assessed"
    /\ DOMAIN data = {"risk_score", "risk_category"}
    /\ bp \in BpResults
    /\ risk \in RiskResults

CrisisRange == Systolic >= 180 \/ Diastolic >= 120

Stage1Range ==
    (130 <= Systolic /\ Systolic <= 139) \/ (80 <= Diastolic /\ Diastolic <= 89)

C24_CrisisNeverReturned ==
    stage # "input" =>
        /\ bp[1] # Crisis
        /\ ~Contains(<<"Crisis">>, bp[1])
        /\ CrisisRange => bp[1] \in {Stage1, Stage2}

\* 190/130 has been classified, as Stage 2
C24_Witness ==
    /\ stage = "classified"
    /\ Systolic = 190 /\ Diastolic = 130
    /\ bp = <<Stage2, "high">>

\* the orders in which rules 1 to 4 can be tried
RuleOrders == {o \in [1..4 -> 1..4] : \A i, j \in 1..4 : o[i] = o[j] => i = j}

\* the rules a reading satisfies
Matching(systolic, diastolic) == {r \in 1..4 : RuleCondition(r, systolic, diastolic)}

\* the result of the first rule that matches when the rules are tried in order o
FirstMatch(o, systolic, diastolic) ==
    LET hits == {i \in 1..4 : RuleCondition(o[i], systolic, diastolic)}
        first == CHOOSE i \in hits : \A j \in hits : i <= j
    IN  RuleResult(o[first])

\* C25, as claimed: no reading satisfies the conditions of two different rules
\* among Normal, Elevated, Stage 1 and Stage 2, so trying these four rules in
\* any other order gives the same category for every reading.
C25_RulesDoNotOverlap ==
    stage = "classified" =>
        /\ Cardinality(Matching(Systolic, Diastolic)) <= 1
        /\ \A o \in RuleOrders : FirstMatch(o, Systolic, Diastolic) = bp

\* C25, amended: every reading satisfies at least one of rules 1 to 4 and
\* classify_bp returns the result of the first of them in the order Normal,
\* Elevated, Stage 1, Stage 2; the conditions overlap in two more places than
\* Stage 2 / Crisis: every Normal reading also satisfies the Elevated condition
\* (systolic < 130 and diastolic < 80), and a reading can satisfy both the
\* Stage 1 and the Stage 2 condition (e.g. 140/80); no other two of the four
\* overlap, and the category is the same in every order exactly for the
\* readings that satisfy one rule only.
C25_RulesOverlapInTwoPlaces ==
    stage = "classified" =>
        LET m == Matching(Systolic, Diastolic)
        IN  /\ m \in {{1, 2}, {2}, {3}, {4}, {3, 4}}
            /\ bp = RuleResult(CHOOSE r \in m : \A q \in m : r <= q)
            /\ (\A o \in RuleOrders : FirstMatch(o, Systolic, Diastolic) = bp)
                  <=> Cardinality(m) = 1

\* 140/80 satisfies the Stage 1 and the Stage 2 condition and is Stage 1
C25_Witness ==
    /\ stage = "classified"
    /\ Systolic = 140 /\ Diastolic = 80
    /\ Matching(Systolic, Diastolic) = {3, 4}
    /\ bp = <<Stage1, "moderate">>

\* C26: for every pair of integers, inside or outside the validated ranges,
\* classify_bp returns Normal, Elevated, Stage 1 or Stage 2 Hypertension, never
\* Unknown, and the severity is fixed by the category: Normal low, Elevated and
\* Stage 1 moderate, Stage 2 high.
C26_FourCategoriesOnly ==
    stage # "input" =>
        /\ bp[1] \in {Normal, Elevated, Stage1, Stage2}
        /\ bp[1] # Unknown
        /\ bp[2] = CASE bp[1] = Normal -> "low"
                     [] bp[1] \in {Elevated, Stage1} -> "moderate"
                     [] bp[1] = Stage2 -> "high"
                     [] OTHER -> "none"

\* a reading outside both validated ranges has been classified
C26_Witness ==
    /\ stage = "classified"
    /\ Systolic > SysMax /\ Diastolic < DiaMin
    /\ bp = <<Stage2, "high">>

\* C27: for every record with integer vitals the score lies between 0 and 18
\* inclusive: the Crisis contribution of 5 is never added, the largest BP
\* contribution is 3, and the 20 of the displayed scale is never reached.
C27_ScoreAtMost18 ==
    Assessed =>
        /\ 0 <= risk_score /\ risk_score <= 18
        /\ BpFactor(data) \in {0, 2, 3}
        /\ data.risk_score < MaxScore
        /\ risk_score = 3 + 2 + (3 + 3 + 2 + 2) + 3 =>
              /\ AgeFactor(data) = 3 /\ BmiFactor(data) = 2
              /\ ComorbidityFactor(data) = 10 /\ BpFactor(data) = 3

\* the top score has been reached
C27_Witness ==
    /\ stage = "assessed"
    /\ risk_score = 18
    /\ bp = <<Stage2, "high">>

\* C28, as claimed: the pharmacologic-urgency tier agrees with the
\* classification of the same reading: "Medication recommended - Stage 2
\* Hypertension" is shown exactly when classify_bp returns Stage 2
\* Hypertension, and "Lifestyle modifications sufficient" exactly when it
\* returns Normal or Elevated.
C28_TierAgreesWithClassification ==
    (Treated /\ {"systolic", "diastolic"} \subseteq DOMAIN data) =>
        LET category == classify_bp(data.systolic, data.diastolic)[1]
            tier == plan.pharmacological.tier
        IN  /\ tier = MedicationRecommended <=> category = Stage2
            /\ tier = LifestyleSufficient <=> category \in {Normal, Elevated}

\* C29, as claimed: once an assessment has been generated, a run of the
\* Patient Assessment page that leaves the stored record as it is (the user
\* changed a form input and did not click "Generate Assessment Summary") leaves
\* the "Immediate Actions Required" list as it is.
C29_ActionsFollowTheSnapshot ==
    [][(/\ page = "Patient Assessment" /\ page' = "Patient Assessment"
        /\ DOMAIN data # {}
        /\ data' = data) => actions' = actions]_vars

\* C30: the stored patient record starts empty, only the "Generate Assessment
\* Summary" click writes it, and in every state where it is empty the
\* Treatment Options and Reports pages show no recommendation, schedule,
\* score or report.
C30_ContentOnlyAfterAssessment ==
    /\ DOMAIN data = {}
    /\ [](DOMAIN data = {} =>
            /\ plan = None /\ report = None
            /\ risk = None /\ actions = None)
    /\ [][data' # data =>
            /\ page = "Patient Assessment"
            /\ data' = GenerateAssessment(widgets)
            /\ DOMAIN data' # {}]_vars

\* the form has been filled in but no assessment generated, and the
\* Treatment Options page is open and shows nothing
C30_Witness ==
    /\ page = "Treatment Options"
    /\ DOMAIN data = {}
    /\ widgets # DefaultWidgets
    /\ plan = None /\ report = None

====
